---- MODULE Spec2Model ----
(***************************************************************************)
(* Telemetry reconciliation and path tracking of the wildlife-tracking     *)
(* client.  The client is a set of React pages; one page is mounted at a   *)
(* time (variable page) and holds its state in useState cells.  A page's   *)
(* Firebase listeners are modelled as actions that receive a snapshot; an  *)
(* action is the whole callback together with the effects React runs       *)
(* because of the state the callback changed.                              *)
(***************************************************************************)
EXTENDS Integers, Sequences, FiniteSets, TLC

VARIABLES
    page,             \* the mounted page component
    now,              \* Date.now()
    currentLocation,  \* useState currentLocation
    history,          \* useState history (About, Materials)
    alerts,           \* useState alerts (Materials, Press)
    error,            \* useState error
    isLoading,        \* useState isLoading
    travelPath,       \* useState travelPath
    isTracking,       \* useState isTracking
    trackingHistory,  \* useState trackingHistory (About, Materials)
    listeners,        \* the callbacks registered with onValue and not removed by off
    selectedDevice,   \* useState selectedDevice (Press)
    locationHistory,  \* useState locationHistory (Press)
    deviceId,         \* useState deviceId (Messages)
    isConnected,      \* useState isConnected (Messages)
    currentMotion,    \* useState currentMotion (Messages)
    motionHistory,    \* useState motionHistory (Messages)
    loading,          \* useState loading (Messages)
    devices,          \* useState devices (Press): the ids of the devices
    devicesListeners, \* the handleSnapshot closures registered on devicesRef and not
                      \* removed: the selectedDevice each of them captured
    subscription,     \* adapter: the listener listenToRealtimeData registered with onValue
    callbackCalls,    \* adapter: the arguments the data callback was invoked with
    errorCallbackCalls, \* adapter: the number of invocations of the error callback
    stored,           \* adapter: the children stored under the path that is fetched
    promise,          \* adapter: the promise the latest fetch returned
    firstSnapshot,    \* history variable: a location listener registered for the selected
                      \* device has delivered since that device was selected
    lastDelivery      \* history variable: the source and snapshot of the latest delivery,
                      \* kept only in the behaviours that start with it switched on

feedVars == <<currentLocation, history, alerts, error, isLoading>>
trackVars == <<travelPath, isTracking, trackingHistory>>
pressVars == <<listeners, selectedDevice, locationHistory>>
monitorVars == <<deviceId, isConnected, currentMotion, motionHistory, loading>>

devicesVars == <<devices, devicesListeners>>
adapterVars == <<subscription, callbackCalls, errorCallbackCalls, stored, promise>>

vars == <<page, now, feedVars, trackVars, pressVars, monitorVars, devicesVars, adapterVars,
          firstSnapshot, lastDelivery>>

-----------------------------------------------------------------------------
(* Bounds *)

\* the clock runs from 1 to MaxNow
MaxNow == 2
\* the number of children a limitToLast(50) query delivers, scaled down
HistoryLimit == 2
\* the points held in travelPath and in the archived sessions together
MaxPoints == 3
\* trackingHistory is explored up to this length
MaxSessions == 2

-----------------------------------------------------------------------------
(* JavaScript values *)

\* a field that is absent from an object
Undefined == 0 - 1
\* Number("lat"), Number(undefined)
NaN == 0 - 3
\* null in a useState cell
Null == [null |-> TRUE]
\* the string "bad" in a field that holds a number
BadString == 0 - 5
\* typeof x === 'number'
IsNumber(x) == x # Undefined /\ x # BadString

\* the devices of the store; useState<string | null>(null) holds NoDevice
Devices == {"A", "B"}
NoDevice == ""

\* the value of a state cell of type string | null that holds the string text
Message(text) == [message |-> text]
\* useState<string>('-OMxlruhcnBp92AAkV05')
DefaultDevice == "A"

Falsy(x) == x = Undefined \/ x = 0 \/ x = NaN
\* x || d
Or(x, d) == IF Falsy(x) THEN d ELSE x
\* s || d for a string
OrStr(s, d) == IF s = "" THEN d ELSE s

Min(S) == CHOOSE m \in S : \A x \in S : m <= x
Max(S) == CHOOSE m \in S : \A x \in S : m >= x

RECURSIVE Reverse(_)
\* Array.prototype.reverse
Reverse(s) == IF s = <<>> THEN <<>> ELSE Reverse(Tail(s)) \o <<Head(s)>>

\* Array.prototype.slice(0, n)
Slice0(s, n) == SubSeq(s, 1, IF Len(s) < n THEN Len(s) ELSE n)

-----------------------------------------------------------------------------
(* Snapshots: the children of the listened node, keyed by child key *)

\* the child keys of a locations node: the decimal strings "0", "1", "2"
Keys == {0, 1, 2}

\* a child that is no object (a number, a string, a boolean)
Primitive == [isObject |-> FALSE, accuracy |-> Undefined, lat |-> Undefined,
              lng |-> Undefined, source |-> "", timestamp |-> Undefined]

RawObject(lat, ts) == [isObject |-> TRUE, accuracy |-> 5, lat |-> lat,
                       lng |-> 7, source |-> "gps", timestamp |-> ts]

\* the one child key of the tracking specifications
TrackingKeys == {1}

\* the snapshots of at most limit children with keys in Ks and values in V
SnapshotsOver(Ks, V, limit) ==
    UNION {[K -> V] : K \in {S \in SUBSET Ks : Cardinality(S) <= limit}}

Snapshots(V, limit) == SnapshotsOver(Keys, V, limit)

\* snapshot.exists()
Exists(snapshot) == DOMAIN snapshot # {}

RECURSIVE KeysAscending(_)
KeysAscending(S) ==
    IF S = {} THEN <<>>
    ELSE LET m == Min(S) IN <<m>> \o KeysAscending(S \ {m})

\* the children in the order of orderByKey() and of a plain reference
ChildrenByKey(snapshot) ==
    LET ks == KeysAscending(DOMAIN snapshot)
    IN [i \in 1..Len(ks) |-> [key |-> ks[i], val |-> snapshot[ks[i]]]]

\* the value orderByChild('timestamp') orders a child by: null sorts first
ChildTimestamp(v) == IF v.isObject THEN v.timestamp ELSE Undefined

RECURSIVE KeysByChildTimestamp(_, _)
KeysByChildTimestamp(snapshot, S) ==
    IF S = {} THEN <<>>
    ELSE LET m == CHOOSE k \in S : \A j \in S :
                      \/ ChildTimestamp(snapshot[k]) < ChildTimestamp(snapshot[j])
                      \/ /\ ChildTimestamp(snapshot[k]) = ChildTimestamp(snapshot[j])
                         /\ k <= j
         IN <<m>> \o KeysByChildTimestamp(snapshot, S \ {m})

\* the children in the order of orderByChild('timestamp')
ChildrenByTimestamp(snapshot) ==
    LET ks == KeysByChildTimestamp(snapshot, DOMAIN snapshot)
    IN [i \in 1..Len(ks) |-> [key |-> ks[i], val |-> snapshot[ks[i]]]]

\* locationData && typeof locationData === 'object'
IsObject(v) == v.isObject

\* childSnapshot.key || `prefix-${Date.now()}`: a child's key is a non-empty string
IdOf(key, prefix, t) ==
    IF key = Undefined THEN [prefix |-> prefix, n |-> t]
    ELSE [prefix |-> "", n |-> key]

\* Number(childSnapshot.key): the keys are the decimal strings "0", "1", ...
NumberOfKey(key) == key

RECURSIVE InsertNewestFirst(_, _)
InsertNewestFirst(sorted, x) ==
    IF sorted = <<>> THEN <<x>>
    ELSE IF Head(sorted).data.timestamp >= x.data.timestamp
         THEN <<Head(sorted)>> \o InsertNewestFirst(Tail(sorted), x)
         ELSE <<x>> \o sorted

RECURSIVE SortNewestFirst(_)
\* Array.prototype.sort((a, b) => b.data.timestamp - a.data.timestamp), a stable sort
SortNewestFirst(s) ==
    IF s = <<>> THEN <<>>
    ELSE InsertNewestFirst(SortNewestFirst(SubSeq(s, 1, Len(s) - 1)), s[Len(s)])

-----------------------------------------------------------------------------
(* The history variable *)

NotRecorded == [source |-> "off", snapshot |-> <<>>, repeated |-> FALSE, flip |-> FALSE]
NoDelivery == [source |-> "none", snapshot |-> <<>>, repeated |-> FALSE, flip |-> FALSE]

\* a delivery of snapshot by source; repeated tells that the delivery before it was of
\* the same snapshot by the same source, flip changes with every delivery
Record(source, snapshot) ==
    lastDelivery' = IF lastDelivery = NotRecorded THEN NotRecorded
                    ELSE [source |-> source, snapshot |-> snapshot,
                          repeated |-> (lastDelivery.source = source
                                        /\ lastDelivery.snapshot = snapshot),
                          flip |-> ~lastDelivery.flip]

-----------------------------------------------------------------------------
(* The bound on the points recorded *)

RECURSIVE PointsArchived(_)
PointsArchived(sessions) ==
    IF sessions = <<>> THEN 0
    ELSE Len(Head(sessions).path) + PointsArchived(Tail(sessions))

RoomForPoint == Len(travelPath) + PointsArchived(trackingHistory) < MaxPoints

-----------------------------------------------------------------------------
(* The tracking effect: useEffect(..., [currentLocation, isTracking]) *)

\* About: appends {lat, lng}
AboutTrackingEffect(tracking, current, path) ==
    IF tracking /\ current # Null
    THEN Append(path, [lat |-> current.data.lat, lng |-> current.data.lng])
    ELSE path

\* the effect without the test of isTracking
MaterialsTrackingEffect_Always(tracking, current, path) ==
    IF current # Null
    THEN Append(path, [lat |-> current.data.lat, lng |-> current.data.lng,
                       timestamp |-> current.data.timestamp])
    ELSE path

\* Materials: appends {lat, lng, timestamp}
MaterialsTrackingEffect(tracking, current, path) ==
    IF tracking /\ current # Null
    THEN Append(path, [lat |-> current.data.lat, lng |-> current.data.lng,
                       timestamp |-> current.data.timestamp])
    ELSE path

-----------------------------------------------------------------------------
(* About: LocationTrackerWithMap on device_001/locations *)

AboutRawValues == {Primitive} \cup {RawObject(lat, Undefined) : lat \in {1, 2}}

RECURSIVE AboutNormalize(_, _, _)
\* the forEach of both listeners: the object children as {id, data}
AboutNormalize(children, prefix, t) ==
    IF children = <<>> THEN <<>>
    ELSE LET c == Head(children)
             rest == AboutNormalize(Tail(children), prefix, t)
         IN IF IsObject(c.val)
            THEN <<[id |-> IdOf(c.key, prefix, t),
                    data |-> [accuracy |-> Or(c.val.accuracy, 0),
                              lat |-> Or(c.val.lat, 0),
                              lng |-> Or(c.val.lng, 0),
                              timestamp |-> Or(NumberOfKey(c.key), t)]]>> \o rest
            ELSE rest

\* historyUnsubscribe's callback: setHistory(historicalData.reverse())
AboutHistoryOf(snapshot, t) ==
    Reverse(AboutNormalize(ChildrenByKey(snapshot), "fallback-", t))

\* realtimeUnsubscribe's callback: latestLocation, the last object child
AboutLatestOf(snapshot, t) ==
    LET objs == AboutNormalize(ChildrenByKey(snapshot), "realtime-", t)
    IN IF objs = <<>> THEN Null ELSE objs[Len(objs)]

\* prev.some(item => item.id === latestLocation?.id)
IdExists(prev, id) == \E i \in 1..Len(prev) : prev[i].id = id

\* the merge without the test for an entry of the same id
AboutMergeLatest_NoDedup(prev, latest) ==
    <<latest>> \o Slice0(prev, HistoryLimit - 1)

\* setHistory(prev => exists ? prev : [latestLocation, ...prev.slice(0, 49)])
AboutMergeLatest(prev, latest) ==
    IF IdExists(prev, latest.id) THEN prev
    ELSE <<latest>> \o Slice0(prev, HistoryLimit - 1)

AboutHistorySnapshot(S) ==
    \E snapshot \in S :
        /\ page = "About"
        /\ history' = AboutHistoryOf(snapshot, now)
        /\ error' = Null
        /\ Record("history", snapshot)
        /\ UNCHANGED <<page, adapterVars, firstSnapshot, devicesVars, now, currentLocation, alerts, isLoading, trackVars,
                       pressVars, monitorVars>>

AboutRealtimeSnapshot(S) ==
    \E snapshot \in S :
        LET latest == AboutLatestOf(snapshot, now)
        IN /\ page = "About"
           /\ isTracking /\ latest # Null => RoomForPoint
           /\ IF latest # Null
              THEN /\ currentLocation' = latest
                   /\ history' = AboutMergeLatest(history, latest)
                   /\ error' = Null
                   /\ travelPath' = AboutTrackingEffect(isTracking, latest, travelPath)
              ELSE UNCHANGED <<currentLocation, history, error, travelPath>>
           /\ Record("realtime", snapshot)
           /\ UNCHANGED <<page, adapterVars, firstSnapshot, devicesVars, now, alerts, isLoading, isTracking, trackingHistory,
                          pressVars, monitorVars>>

\* the error callbacks of both listeners
AboutListenerError ==
    /\ page = "About"
    /\ \E kind \in {"History error", "Realtime error"} : error' = Message(kind)
    /\ UNCHANGED lastDelivery
    /\ UNCHANGED <<page, adapterVars, firstSnapshot, devicesVars, now, currentLocation, history, alerts, isLoading, trackVars,
                   pressVars, monitorVars>>


\* Object.keys(point): the own property names of a travelPath point, in insertion order
ObjectKeys(point) == <<"lat", "lng">>

\* Number(name) of a property name that is no numeral
NumberOfName(name) == NaN

\* the session toggleTracking and saveCurrentPath archive
AboutSession(path, t) ==
    [id |-> [prefix |-> "track-", n |-> t],
     path |-> path,
     startTime |-> IF path # <<>> THEN NumberOfName(ObjectKeys(path[1])[1]) ELSE t,
     endTime |-> t]

\* toggleTracking
AboutToggleTracking ==
    /\ page = "About"
    /\ isTracking => Len(trackingHistory) < MaxSessions
    /\ ~isTracking /\ currentLocation # Null => RoomForPoint
    /\ IF isTracking
       THEN /\ trackingHistory' = Append(trackingHistory,
                    AboutSession(travelPath, now))
            /\ travelPath' = AboutTrackingEffect(FALSE, currentLocation, <<>>)
       ELSE /\ trackingHistory' = trackingHistory
            /\ travelPath' = AboutTrackingEffect(TRUE, currentLocation, travelPath)
    /\ isTracking' = ~isTracking
    /\ UNCHANGED lastDelivery
    /\ UNCHANGED <<page, adapterVars, firstSnapshot, devicesVars, now, feedVars, pressVars, monitorVars>>

\* saveCurrentPath; its button is rendered when isTracking && travelPath.length > 0
AboutSaveCurrentPath ==
    /\ page = "About"
    /\ isTracking /\ Len(travelPath) > 0
    /\ Len(trackingHistory) < MaxSessions
    /\ trackingHistory' = Append(trackingHistory, AboutSession(travelPath, now))
    /\ travelPath' = <<>>
    /\ UNCHANGED lastDelivery
    /\ UNCHANGED <<page, adapterVars, firstSnapshot, devicesVars, now, feedVars, isTracking, pressVars, monitorVars>>

-----------------------------------------------------------------------------
(* Materials: LocationTrackerWithMap on locations and alerts *)

MaterialsRawValues ==
    {Primitive, RawObject(1, Undefined), RawObject(1, 1), RawObject(1, 2), RawObject(2, 2)}

RECURSIVE MaterialsNormalize_DropsMalformed(_, _)
\* the forEach keeping only the children whose lat and timestamp are numbers
MaterialsNormalize_DropsMalformed(children, t) ==
    IF children = <<>> THEN <<>>
    ELSE LET c == Head(children)
             rest == MaterialsNormalize_DropsMalformed(Tail(children), t)
         IN IF IsObject(c.val) /\ IsNumber(c.val.lat) /\ IsNumber(c.val.timestamp)
            THEN <<[id |-> IdOf(c.key, "loc-", t),
                    data |-> [accuracy |-> Or(c.val.accuracy, 0),
                              lat |-> Or(c.val.lat, 0),
                              lng |-> Or(c.val.lng, 0),
                              source |-> OrStr(c.val.source, "Unknown"),
                              timestamp |-> Or(c.val.timestamp, t)]]>> \o rest
            ELSE rest

RECURSIVE MaterialsNormalize(_, _)
\* the forEach of locationsUnsubscribe's callback: the object children as {id, data}
MaterialsNormalize(children, t) ==
    IF children = <<>> THEN <<>>
    ELSE LET c == Head(children)
             rest == MaterialsNormalize(Tail(children), t)
         IN IF IsObject(c.val)
            THEN <<[id |-> IdOf(c.key, "loc-", t),
                    data |-> [accuracy |-> Or(c.val.accuracy, 0),
                              lat |-> Or(c.val.lat, 0),
                              lng |-> Or(c.val.lng, 0),
                              source |-> OrStr(c.val.source, "Unknown"),
                              timestamp |-> Or(c.val.timestamp, t)]]>> \o rest
            ELSE rest

\* locationsData without the sort
MaterialsLocationsOf_Unsorted(snapshot, t) ==
    MaterialsNormalize(ChildrenByTimestamp(snapshot), t)

\* locationsData after locationsData.sort(...)
MaterialsLocationsOf(snapshot, t) ==
    SortNewestFirst(MaterialsNormalize(ChildrenByTimestamp(snapshot), t))

\* the callback adding to the history instead of replacing it
MaterialsHistoryAfter_Appending(prev, snapshot, t) ==
    IF ~Exists(snapshot) THEN <<>> ELSE prev \o MaterialsLocationsOf(snapshot, t)

\* the history the callback sets
MaterialsHistoryAfter(prev, snapshot, t) ==
    IF ~Exists(snapshot) THEN <<>> ELSE MaterialsLocationsOf(snapshot, t)

\* the current location the callback sets
MaterialsCurrentAfter(prev, snapshot, t) ==
    IF Exists(snapshot) /\ MaterialsLocationsOf(snapshot, t) # <<>>
    THEN MaterialsLocationsOf(snapshot, t)[1]
    ELSE prev

MaterialsLocationsSnapshot(S) ==
    \E snapshot \in S :
        LET changed == Exists(snapshot) /\ MaterialsLocationsOf(snapshot, now) # <<>>
        IN /\ page = "Materials"
           /\ isTracking /\ changed => RoomForPoint
           /\ history' = MaterialsHistoryAfter(history, snapshot, now)
           /\ currentLocation' = MaterialsCurrentAfter(currentLocation, snapshot, now)
           /\ error' = IF Exists(snapshot) THEN Null ELSE error
           /\ isLoading' = FALSE
           /\ travelPath' = IF changed
                            THEN MaterialsTrackingEffect(isTracking, currentLocation',
                                                         travelPath)
                            ELSE travelPath
           /\ Record("locations", snapshot)
           /\ UNCHANGED <<page, adapterVars, firstSnapshot, devicesVars, now, alerts, isTracking, trackingHistory,
                          pressVars, monitorVars>>

\* the error callback of locationsUnsubscribe
MaterialsLocationsError ==
    /\ page = "Materials"
    /\ error' = Message("Locations error")
    /\ isLoading' = FALSE
    /\ UNCHANGED lastDelivery
    /\ UNCHANGED <<page, adapterVars, firstSnapshot, devicesVars, now, currentLocation, history, alerts, trackVars,
                   pressVars, monitorVars>>

\* the session toggleTracking and saveCurrentPath archive
MaterialsSession(path, t) ==
    [id |-> [prefix |-> "track-", n |-> t],
     path |-> path,
     startTime |-> IF path # <<>> THEN Or(path[1].timestamp, t) ELSE t,
     endTime |-> t]

\* toggleTracking without setTravelPath([]) on stop
MaterialsToggleTracking_KeepsPath ==
    /\ page = "Materials"
    /\ isTracking => Len(trackingHistory) < MaxSessions
    /\ ~isTracking /\ currentLocation # Null => RoomForPoint
    /\ IF isTracking
       THEN /\ trackingHistory' = Append(trackingHistory,
                    MaterialsSession(travelPath, now))
            /\ travelPath' = MaterialsTrackingEffect(FALSE, currentLocation, travelPath)
       ELSE /\ trackingHistory' = trackingHistory
            /\ travelPath' = MaterialsTrackingEffect(TRUE, currentLocation, travelPath)
    /\ isTracking' = ~isTracking
    /\ UNCHANGED lastDelivery
    /\ UNCHANGED <<page, adapterVars, firstSnapshot, devicesVars, now, feedVars, pressVars, monitorVars>>

\* toggleTracking
MaterialsToggleTracking ==
    /\ page = "Materials"
    /\ isTracking => Len(trackingHistory) < MaxSessions
    /\ ~isTracking /\ currentLocation # Null => RoomForPoint
    /\ IF isTracking
       THEN /\ trackingHistory' = Append(trackingHistory,
                    MaterialsSession(travelPath, now))
            /\ travelPath' = MaterialsTrackingEffect(FALSE, currentLocation, <<>>)
       ELSE /\ trackingHistory' = trackingHistory
            /\ travelPath' = MaterialsTrackingEffect(TRUE, currentLocation, travelPath)
    /\ isTracking' = ~isTracking
    /\ UNCHANGED lastDelivery
    /\ UNCHANGED <<page, adapterVars, firstSnapshot, devicesVars, now, feedVars, pressVars, monitorVars>>

\* saveCurrentPath; its button is rendered when isTracking && travelPath.length > 0
MaterialsSaveCurrentPath ==
    /\ page = "Materials"
    /\ isTracking /\ Len(travelPath) > 0
    /\ Len(trackingHistory) < MaxSessions
    /\ trackingHistory' = Append(trackingHistory, MaterialsSession(travelPath, now))
    /\ travelPath' = <<>>
    /\ UNCHANGED lastDelivery
    /\ UNCHANGED <<page, adapterVars, firstSnapshot, devicesVars, now, feedVars, isTracking, pressVars, monitorVars>>

-----------------------------------------------------------------------------
(* The listeners of a page: onValue registers a callback on a query, off     *)
(* removes the registrations of the query that match the callback it is given *)

Registration(device, query, callback) ==
    [device |-> device, query |-> query, callback |-> callback]

\* off(query, 'value', callback): removes the registrations of that callback
OffCallback(regs, device, query, callback) ==
    regs \ {Registration(device, query, callback)}

\* off(ref): removes every registration of the reference
OffAll(regs, device, query) ==
    {r \in regs : ~(r.device = device /\ r.query = query)}

-----------------------------------------------------------------------------
(* Press: DeviceLocationTracker on devices/{selectedDevice} *)

\* a location of device d; dev records the device whose path delivered it
DeviceLocation(d, lat, ts) ==
    [isObject |-> TRUE, accuracy |-> 5, lat |-> lat, lng |-> 7, source |-> "gps",
     timestamp |-> ts, dev |-> d]

DeviceAlert(d, ts) ==
    [isObject |-> TRUE, status |-> "Motion Detected", source |-> "pir",
     timestamp |-> ts, dev |-> d]

\* the records are stored as delivered; their sort needs numeric timestamps
PressLocations(d) == {DeviceLocation(d, 1, ts) : ts \in {1, 2}}
PressAlerts(d) == {DeviceAlert(d, ts) : ts \in {1, 2}}

\* limitToLast(1), limitToLast(50), limitToLast(10)
PressLocationSnapshots(d) == Snapshots(PressLocations(d), 1)
PressHistorySnapshots(d) == Snapshots(PressLocations(d), HistoryLimit)
PressAlertsSnapshots(d) == SnapshotsOver(TrackingKeys, PressAlerts(d), 1)
\* the location snapshots of the tracking specification
PressTrackingSnapshots(d) ==
    SnapshotsOver(TrackingKeys, {DeviceLocation(d, 1, 1), DeviceLocation(d, 3, 1)}, 1)

RECURSIVE Values(_)
\* the forEach of the three handlers: the children that are truthy
Values(children) ==
    IF children = <<>> THEN <<>> ELSE <<Head(children).val>> \o Values(Tail(children))

RECURSIVE InsertRawNewestFirst(_, _)
InsertRawNewestFirst(sorted, x) ==
    IF sorted = <<>> THEN <<x>>
    ELSE IF Head(sorted).timestamp >= x.timestamp
         THEN <<Head(sorted)>> \o InsertRawNewestFirst(Tail(sorted), x)
         ELSE <<x>> \o sorted

RECURSIVE SortRawNewestFirst(_)
\* Array.prototype.sort((a, b) => b.timestamp - a.timestamp), a stable sort
SortRawNewestFirst(s) ==
    IF s = <<>> THEN <<>>
    ELSE InsertRawNewestFirst(SortRawNewestFirst(SubSeq(s, 1, Len(s) - 1)), s[Len(s)])

\* handleLocationSnapshot: the current location it sets
PressCurrentAfter(snapshot) ==
    IF ~Exists(snapshot) THEN Null
    ELSE LET vs == Values(ChildrenByTimestamp(snapshot)) IN vs[Len(vs)]

\* handleHistorySnapshot, handleAlertsSnapshot: the list they set
PressListOf(snapshot) == SortRawNewestFirst(Values(ChildrenByTimestamp(snapshot)))

\* the tracking effect: appends {lat, lng}
PressTrackingEffect(tracking, current, path) ==
    IF tracking /\ current # Null
    THEN Append(path, [lat |-> current.lat, lng |-> current.lng])
    ELSE path

\* the cleanup of useEffect(..., [selectedDevice]): off is given the unsubscribe
\* functions onValue returned, which are not the registered callbacks
PressCleanup(regs, d) ==
    IF d = NoDevice THEN regs
    ELSE OffCallback(OffCallback(OffCallback(regs,
             d, "location", "locationUnsubscribe"),
             d, "history", "historyUnsubscribe"),
             d, "alerts", "alertsUnsubscribe")

\* the body of useEffect(..., [selectedDevice])
PressSubscribe(regs, d) ==
    IF d = NoDevice THEN regs
    ELSE regs \cup {Registration(d, "location", "handleLocationSnapshot"),
                    Registration(d, "history", "handleHistorySnapshot"),
                    Registration(d, "alerts", "handleAlertsSnapshot")}

\* the cleanup of the devices effect: off(devicesRef, 'value', unsubscribe) is given
\* the unsubscribe function, which is not a registered callback
DevicesCleanup(closures) == closures

\* the body of the devices effect: onValue(devicesRef, handleSnapshot, handleError)
\* with a handleSnapshot that captured the selected device d
DevicesSubscribe(closures, d) == closures \cup {d}

\* the select's onChange: setSelectedDevice(e.target.value), and the two effects of
\* [selectedDevice] it triggers
PressSelectDevice ==
    \E d \in Devices \cup {NoDevice} :
        /\ page = "Press"
        /\ d # selectedDevice
        /\ selectedDevice' = d
        /\ listeners' = PressSubscribe(PressCleanup(listeners, selectedDevice), d)
        /\ devicesListeners' = DevicesSubscribe(DevicesCleanup(devicesListeners), d)
        /\ isLoading' = IF d = NoDevice THEN isLoading ELSE TRUE
        /\ UNCHANGED lastDelivery
        /\ firstSnapshot' = FALSE
        /\ UNCHANGED <<page, adapterVars, devices, now, currentLocation, history, alerts, error, trackVars,
                       locationHistory, monitorVars>>

\* the devices in the order of their keys
DevicesByKey == <<"A", "B">>

\* a child of 'devices': an object with locations and alerts
RawDevice == [isObject |-> TRUE]

\* the snapshots of 'devices'
DevicesSnapshots == UNION {[K -> {RawDevice}] : K \in SUBSET Devices}

\* devicesData: the ids of the children, deviceId && deviceData being true of each
DevicesOf(snapshot) ==
    LET In(d) == d \in DOMAIN snapshot IN SelectSeq(DevicesByKey, In)

\* handleSnapshot of the devices effect, registered when the selected device was the
\* closure's: it selects the first device when that one was no device, and the
\* change of selectedDevice runs both effects of [selectedDevice]
PressDevicesSnapshot(S) ==
    \E closure \in devicesListeners : \E snapshot \in S :
        /\ page = "Press"
        /\ IF ~Exists(snapshot)
           THEN /\ error' = Message("No devices found in database")
                /\ isLoading' = FALSE
                /\ UNCHANGED <<devices, devicesListeners, listeners, selectedDevice>>
           ELSE LET devicesData == DevicesOf(snapshot)
                    selected == IF closure = NoDevice THEN devicesData[1]
                                ELSE selectedDevice
                IN /\ devices' = devicesData
                   /\ selectedDevice' = selected
                   /\ error' = Null
                   /\ IF selected # selectedDevice
                      THEN /\ listeners' = PressSubscribe(
                                  PressCleanup(listeners, selectedDevice), selected)
                           /\ devicesListeners' = DevicesSubscribe(
                                  DevicesCleanup(devicesListeners), selected)
                           /\ isLoading' = TRUE
                      ELSE /\ UNCHANGED <<listeners, devicesListeners>>
                           /\ isLoading' = FALSE
        /\ Record("devices", snapshot)
        /\ firstSnapshot' = (firstSnapshot /\ selectedDevice' = selectedDevice)
        /\ UNCHANGED <<page, adapterVars, now, currentLocation, history, alerts, trackVars,
                       locationHistory, monitorVars>>

\* handleError of the devices effect
PressDevicesError ==
    /\ page = "Press"
    /\ devicesListeners # {}
    /\ error' = Message("Devices error")
    /\ isLoading' = FALSE
    /\ UNCHANGED lastDelivery
    /\ UNCHANGED <<page, adapterVars, firstSnapshot, now, currentLocation, history, alerts, trackVars, pressVars,
                   monitorVars, devicesVars>>

PressLocationSnapshot(S) ==
    \E r \in listeners : \E snapshot \in S[r.device] :
        /\ page = "Press"
        /\ r.callback = "handleLocationSnapshot"
        /\ isTracking /\ Exists(snapshot) => RoomForPoint
        /\ currentLocation' = PressCurrentAfter(snapshot)
        /\ travelPath' = PressTrackingEffect(isTracking, currentLocation', travelPath)
        /\ Record("location", snapshot)
        /\ firstSnapshot' = (firstSnapshot \/ r.device = selectedDevice)
        /\ UNCHANGED <<page, adapterVars, devicesVars, now, history, alerts, error, isLoading, isTracking,
                       trackingHistory, pressVars, monitorVars>>

PressHistorySnapshot ==
    \E r \in listeners : \E snapshot \in PressHistorySnapshots(r.device) :
        /\ page = "Press"
        /\ r.callback = "handleHistorySnapshot"
        /\ locationHistory' = PressListOf(snapshot)
        /\ isLoading' = FALSE
        /\ Record("history", snapshot)
        /\ UNCHANGED <<page, adapterVars, firstSnapshot, devicesVars, now, currentLocation, history, alerts, error, trackVars,
                       listeners, selectedDevice, monitorVars>>

PressAlertsSnapshot ==
    \E r \in listeners : \E snapshot \in PressAlertsSnapshots(r.device) :
        /\ page = "Press"
        /\ r.callback = "handleAlertsSnapshot"
        /\ alerts' = PressListOf(snapshot)
        /\ Record("alerts", snapshot)
        /\ UNCHANGED <<page, adapterVars, firstSnapshot, devicesVars, now, currentLocation, history, error, isLoading, trackVars,
                       pressVars, monitorVars>>

\* toggleTracking without setTravelPath([]) on stop
PressToggleTracking_KeepsPath ==
    /\ page = "Press"
    /\ ~isTracking /\ currentLocation # Null => RoomForPoint
    /\ travelPath' = IF isTracking THEN travelPath
                     ELSE PressTrackingEffect(TRUE, currentLocation, travelPath)
    /\ isTracking' = ~isTracking
    /\ UNCHANGED lastDelivery
    /\ UNCHANGED <<page, adapterVars, firstSnapshot, devicesVars, now, feedVars, trackingHistory, pressVars, monitorVars>>

\* toggleTracking, and the tracking effect it triggers
PressToggleTracking ==
    /\ page = "Press"
    /\ ~isTracking /\ currentLocation # Null => RoomForPoint
    /\ travelPath' = IF isTracking THEN <<>>
                     ELSE PressTrackingEffect(TRUE, currentLocation, travelPath)
    /\ isTracking' = ~isTracking
    /\ UNCHANGED lastDelivery
    /\ UNCHANGED <<page, adapterVars, firstSnapshot, devicesVars, now, feedVars, trackingHistory, pressVars, monitorVars>>

-----------------------------------------------------------------------------
(* Messages: DeviceMonitor on devices/{deviceId} *)

MotionOf(d, ts) == [isObject |-> TRUE, status |-> "Motion Detected", timestamp |-> ts, dev |-> d]
LastKnownOf(d, ts) == [isObject |-> TRUE, accuracy |-> 5, lat |-> 1, lng |-> 7,
                       timestamp |-> ts, dev |-> d]

\* snapshot.val() of a node that holds one record: the record, or null
MonitorMotionValues(d) == {Null} \cup {MotionOf(d, ts) : ts \in {1, 2}}
MonitorLocationValues(d) == {Null} \cup {LastKnownOf(d, ts) : ts \in {1, 2}}
\* snapshot.val() of motion_status/history: the children by key, or null
MonitorHistoryValues(d) == Snapshots({MotionOf(d, 1), MotionOf(d, 2)}, 1)

\* snapshot.val() || {}
OrEmptyObject(val) == IF Exists(val) THEN val ELSE <<>>

\* the cleanup of useEffect(..., [deviceId, isConnected]): off(ref) for the three references
MonitorCleanup(regs, d) ==
    OffAll(OffAll(OffAll(regs, d, "motionLast"), d, "motionHistory"), d, "locationLast")

\* the body of useEffect(..., [deviceId, isConnected]) when connected
MonitorSubscribe(regs, d) ==
    regs \cup {Registration(d, "motionLast", "motionLast"),
               Registration(d, "motionHistory", "motionHistory"),
               Registration(d, "locationLast", "locationLast")}

\* the effect after deviceId or isConnected changed to d, c
MonitorEffect(d, c) ==
    /\ listeners' = IF c THEN MonitorSubscribe(MonitorCleanup(listeners, deviceId), d)
                    ELSE MonitorCleanup(listeners, deviceId)
    /\ loading' = IF c THEN TRUE ELSE loading
    /\ error' = IF c THEN Null ELSE error

\* the '.info/connected' listener: setIsConnected(snapshot.val() === true)
MonitorConnection ==
    \E c \in BOOLEAN :
        /\ page = "Messages"
        /\ c # isConnected
        /\ isConnected' = c
        /\ MonitorEffect(deviceId, c)
        /\ UNCHANGED lastDelivery
        /\ firstSnapshot' = FALSE
        /\ UNCHANGED <<page, adapterVars, devicesVars, now, currentLocation, history, alerts, isLoading, trackVars,
                       selectedDevice, locationHistory, deviceId, currentMotion,
                       motionHistory>>

\* the input's onChange: setDeviceId(e.target.value)
MonitorSetDeviceId ==
    \E d \in Devices :
        /\ page = "Messages"
        /\ d # deviceId
        /\ deviceId' = d
        /\ MonitorEffect(d, isConnected)
        /\ UNCHANGED lastDelivery
        /\ firstSnapshot' = FALSE
        /\ UNCHANGED <<page, adapterVars, devicesVars, now, currentLocation, history, alerts, isLoading, trackVars,
                       selectedDevice, locationHistory, isConnected, currentMotion,
                       motionHistory>>

MonitorMotionLast ==
    \E r \in listeners : \E val \in MonitorMotionValues(r.device) :
        /\ page = "Messages"
        /\ r.callback = "motionLast"
        /\ currentMotion' = val
        /\ loading' = FALSE
        /\ Record("motionLast", val)
        /\ UNCHANGED <<page, adapterVars, firstSnapshot, devicesVars, now, feedVars, trackVars, pressVars, deviceId, isConnected,
                       motionHistory>>

MonitorMotionHistory ==
    \E r \in listeners : \E val \in MonitorHistoryValues(r.device) :
        /\ page = "Messages"
        /\ r.callback = "motionHistory"
        /\ motionHistory' = OrEmptyObject(val)
        /\ Record("motionHistory", val)
        /\ UNCHANGED <<page, adapterVars, firstSnapshot, devicesVars, now, feedVars, trackVars, pressVars, deviceId, isConnected,
                       currentMotion, loading>>

MonitorLocation ==
    \E r \in listeners : \E val \in MonitorLocationValues(r.device) :
        /\ page = "Messages"
        /\ r.callback = "locationLast"
        /\ currentLocation' = val
        /\ Record("locationLast", val)
        /\ firstSnapshot' = (firstSnapshot \/ r.device = deviceId)
        /\ UNCHANGED <<page, adapterVars, devicesVars, now, history, alerts, error, isLoading, trackVars, pressVars,
                       monitorVars>>

-----------------------------------------------------------------------------
(* The Firebase adapter: subscribing to a path and fetching the last records *)

\* the invocations of the data callback that are explored
MaxCalls == 3
\* the limits a fetch is called with run from 0 to MaxLimit
MaxLimit == 3

pageVars == <<page, now, feedVars, trackVars, pressVars, monitorVars, devicesVars,
              firstSnapshot>>

NoSubscription == [state |-> "none", errorCallback |-> FALSE]
NoPromise == [fn |-> "", limit |-> 0, state |-> "none", value |-> Null, settled |-> 0]

\* an array held by a promise
ArrayOf(items) == [array |-> items]

\* the adapter before any of its functions is called
AdapterIdle ==
    /\ subscription = NoSubscription
    /\ callbackCalls = <<>>
    /\ errorCallbackCalls = 0
    /\ promise = NoPromise

\* snapshot.val() of the listened path: an object, a primitive or null
AdapterValues == {RawObject(1, 1), RawObject(2, 2), Primitive, Null}

\* data && typeof data === 'object'
IsNonNullObject(data) == data # Null /\ IsObject(data)

\* listenToRealtimeData: onValue registers the two callbacks
ListenToRealtimeData(errorCallback) ==
    /\ page = "Adapter"
    /\ subscription.state = "none"
    /\ subscription' = [state |-> "listening", errorCallback |-> errorCallback]
    /\ UNCHANGED <<callbackCalls, errorCallbackCalls, stored, promise>>
    /\ UNCHANGED <<pageVars, lastDelivery>>

\* the invocations of callback the snapshot callback makes for the value data; throws
\* tells whether the caller's callback throws when it is invoked for this snapshot:
\* the call is inside the try block, so the catch block invokes callback(null)
RealtimeCallbacks(data, throws) ==
    LET first == IF IsNonNullObject(data) THEN data ELSE Null
    IN IF throws THEN <<first, Null>> ELSE <<first>>

\* the snapshot callback of listenToRealtimeData
RealtimeSnapshot(data, throws) ==
    /\ page = "Adapter"
    /\ subscription.state = "listening"
    /\ Len(callbackCalls) + Len(RealtimeCallbacks(data, throws)) <= MaxCalls
    /\ callbackCalls' = callbackCalls \o RealtimeCallbacks(data, throws)
    /\ UNCHANGED <<subscription, errorCallbackCalls, stored, promise>>
    /\ UNCHANGED <<pageVars, lastDelivery>>

\* the cancel callback of listenToRealtimeData; the database removes a listener it
\* cancels
RealtimeError ==
    /\ page = "Adapter"
    /\ subscription.state = "listening"
    /\ errorCallbackCalls' = IF subscription.errorCallback THEN errorCallbackCalls + 1
                             ELSE errorCallbackCalls
    /\ subscription' = [subscription EXCEPT !.state = "cancelled"]
    /\ UNCHANGED <<callbackCalls, stored, promise>>
    /\ UNCHANGED <<pageVars, lastDelivery>>

\* the function listenToRealtimeData returns: onValue's unsubscribe
RealtimeUnsubscribe ==
    /\ page = "Adapter"
    /\ subscription.state \in {"listening", "cancelled"}
    /\ subscription' = [subscription EXCEPT !.state = "unsubscribed"]
    /\ UNCHANGED <<callbackCalls, errorCallbackCalls, stored, promise>>
    /\ UNCHANGED <<pageVars, lastDelivery>>

\* a location or an alert stored under the path: lat tells the records apart
StoredValues == {RawObject(lat, ts) : lat \in {1, 2}, ts \in {1, 2, 3}}
StoredSets == SnapshotsOver(Keys, StoredValues, Cardinality(Keys))
Limits == 0..MaxLimit

\* locations.sort((a, b) => b.timestamp - a.timestamp).slice(0, limit)
LastRecords_Unlimited(records, limit) == SortRawNewestFirst(records)

LastRecords(records, limit) == Slice0(SortRawNewestFirst(records), limit)

\* snapshot.forEach(child => records.push(child.val()))
RecordsOf(snapshot) == Values(ChildrenByKey(snapshot))

\* the call of a fetching function: the promise is pending, a listener with onlyOnce
\* is registered
Fetch(fn, limit) ==
    /\ page = "Adapter"
    /\ promise.state # "pending"
    /\ promise' = [fn |-> fn, limit |-> limit, state |-> "pending", value |-> Null,
                   settled |-> 0]
    /\ UNCHANGED <<subscription, callbackCalls, errorCallbackCalls, stored>>
    /\ UNCHANGED <<pageVars, lastDelivery>>

GetLocationHistory(limit) == Fetch("getLocationHistory", limit)
GetDeviceAlerts(limit) == Fetch("getDeviceAlerts", limit)
\* getLatestAlert awaits getDeviceAlerts(deviceId, 1)
GetLatestAlert == Fetch("getLatestAlert", 1)

\* alerts.length > 0 ? alerts[0] : null
LatestOf(list) == IF Len(list) > 0 THEN list[1] ELSE Null

\* the snapshot callback of a fetch: it resolves the promise; onlyOnce removes the
\* listener
FetchSnapshot ==
    /\ page = "Adapter"
    /\ promise.state = "pending"
    /\ LET list == LastRecords(RecordsOf(stored), promise.limit)
       IN promise' = [promise EXCEPT
                          !.state = "fulfilled",
                          !.value = IF promise.fn = "getLatestAlert" THEN LatestOf(list)
                                    ELSE ArrayOf(list),
                          !.settled = @ + 1]
    /\ UNCHANGED <<subscription, callbackCalls, errorCallbackCalls, stored>>
    /\ UNCHANGED <<pageVars, lastDelivery>>

\* the cancel callback of a fetch: it rejects the promise
FetchError ==
    /\ page = "Adapter"
    /\ promise.state = "pending"
    /\ promise' = [promise EXCEPT !.state = "rejected", !.settled = @ + 1]
    /\ UNCHANGED <<subscription, callbackCalls, errorCallbackCalls, stored>>
    /\ UNCHANGED <<pageVars, lastDelivery>>

-----------------------------------------------------------------------------
(* The clock *)

Tick ==
    /\ now < MaxNow
    /\ now' = now + 1
    /\ UNCHANGED lastDelivery
    /\ UNCHANGED <<page, adapterVars, firstSnapshot, devicesVars, feedVars, trackVars, pressVars, monitorVars>>

-----------------------------------------------------------------------------

\* the state after the first render of page p at time t
InitAt(p, recorded, t) ==
    /\ page = p
    /\ now = t
    /\ currentLocation = Null
    /\ history = <<>>
    /\ alerts = <<>>
    /\ error = Null
    /\ isLoading = (p \in {"Materials", "Press"})
    /\ travelPath = <<>>
    /\ isTracking = FALSE
    /\ trackingHistory = <<>>
    /\ listeners = {}
    /\ selectedDevice = NoDevice
    /\ locationHistory = <<>>
    /\ deviceId = DefaultDevice
    /\ isConnected = FALSE
    /\ currentMotion = Null
    /\ motionHistory = <<>>
    /\ loading = TRUE
    /\ devices = <<>>
    /\ devicesListeners = IF p = "Press" THEN DevicesSubscribe({}, NoDevice) ELSE {}
    /\ AdapterIdle
    /\ firstSnapshot = FALSE
    /\ lastDelivery = IF recorded THEN NoDelivery ELSE NotRecorded

InitPage(p, recorded) == InitAt(p, recorded, 1) /\ stored = <<>>

AboutHistorySnapshots == Snapshots(AboutRawValues, HistoryLimit)
AboutRealtimeSnapshots == Snapshots(AboutRawValues, Cardinality(Keys))

NextAboutFeed ==
    \/ AboutHistorySnapshot(AboutHistorySnapshots)
    \/ AboutRealtimeSnapshot(AboutRealtimeSnapshots)
    \/ AboutListenerError
    \/ Tick

MaterialsSnapshots == Snapshots(MaterialsRawValues, HistoryLimit)

NextMaterialsFeed ==
    \/ MaterialsLocationsSnapshot(MaterialsSnapshots)
    \/ MaterialsLocationsError
    \/ Tick

AboutTrackingSnapshots ==
    SnapshotsOver(TrackingKeys, {RawObject(1, Undefined), RawObject(3, Undefined)}, 1)
MaterialsTrackingSnapshots ==
    SnapshotsOver(TrackingKeys, {RawObject(1, Undefined), RawObject(3, 2)}, 1)

NextAboutTracking ==
    \/ AboutRealtimeSnapshot(AboutTrackingSnapshots)
    \/ AboutToggleTracking
    \/ AboutSaveCurrentPath
    \/ Tick

NextMaterialsTracking ==
    \/ MaterialsLocationsSnapshot(MaterialsTrackingSnapshots)
    \/ MaterialsToggleTracking
    \/ MaterialsSaveCurrentPath
    \/ Tick

NextPressFeed ==
    \/ PressSelectDevice
    \/ PressLocationSnapshot([d \in Devices |-> PressLocationSnapshots(d)])
    \/ PressHistorySnapshot
    \/ PressAlertsSnapshot

NextPressTracking ==
    \/ PressSelectDevice
    \/ PressLocationSnapshot([d \in Devices |-> PressTrackingSnapshots(d)])
    \/ PressToggleTracking

NextMessages ==
    \/ MonitorConnection
    \/ MonitorSetDeviceId
    \/ MonitorMotionLast
    \/ MonitorMotionHistory
    \/ MonitorLocation

SpecPressFeed == InitPage("Press", FALSE) /\ [][NextPressFeed]_vars
SpecPressTracking == InitPage("Press", FALSE) /\ [][NextPressTracking]_vars
SpecMessages == InitPage("Messages", FALSE) /\ [][NextMessages]_vars
SpecMaterialsFeed == InitPage("Materials", FALSE) /\ [][NextMaterialsFeed]_vars
SpecAboutTracking == InitPage("About", FALSE) /\ [][NextAboutTracking]_vars
SpecMaterialsTracking == InitPage("Materials", FALSE) /\ [][NextMaterialsTracking]_vars

SpecAboutFeed == InitPage("About", FALSE) /\ [][NextAboutFeed]_vars


\* About and Materials, the two trackers that keep a Timeline of {id, data} entries
NextTimeline == NextAboutFeed \/ NextMaterialsFeed
SpecTimeline ==
    /\ InitPage("About", FALSE) \/ InitPage("Materials", FALSE)
    /\ [][NextTimeline]_vars

\* the same two trackers with the deliveries recorded, on two keys
RedeliveryKeys == {0, 1}
AboutRedeliverySnapshots ==
    SnapshotsOver(RedeliveryKeys, {Primitive, RawObject(1, Undefined)}, HistoryLimit)
MaterialsRedeliverySnapshots ==
    SnapshotsOver(RedeliveryKeys, {RawObject(1, Undefined), RawObject(1, 2)}, HistoryLimit)

NextRedelivery ==
    \/ AboutHistorySnapshot(AboutRedeliverySnapshots)
    \/ AboutRealtimeSnapshot(AboutRedeliverySnapshots)
    \/ MaterialsLocationsSnapshot(MaterialsRedeliverySnapshots)
    \/ Tick

SpecRedelivery ==
    /\ InitPage("About", TRUE) \/ InitPage("Materials", TRUE)
    /\ [][NextRedelivery]_vars

-----------------------------------------------------------------------------
(* Reconciliation of the live feed and the history feed *)

\* the timestamps of the records a list holds
TimestampsOf(list) == {list[i].timestamp : i \in 1..Len(list)}
DataTimestampsOf(list) == {list[i].data.timestamp : i \in 1..Len(list)}

\* C1: the record held as current has the maximum timestamp of all records held from
\* either feed: no record of the Timeline is newer than the current record.
C1_CurrentIsNewest ==
    /\ page = "Press" /\ currentLocation # Null =>
           \A t \in TimestampsOf(locationHistory) : t <= currentLocation.timestamp
    /\ page = "About" /\ currentLocation # Null =>
           \A t \in DataTimestampsOf(history) : t <= currentLocation.data.timestamp

EmptySnapshot == <<>>

\* C2: an empty or non-existent snapshot that arrives when the Timeline holds entries
\* leaves the Timeline and the current record unchanged.
C2_EmptySnapshotChangesNothing ==
    [][/\ history # <<>>
       /\ MaterialsLocationsSnapshot({EmptySnapshot})
       => /\ history' = history
          /\ currentLocation' = currentLocation]_vars

\* C3: after the observed device changed, no listener of the device observed before
\* is left: every registered listener is on a path of the selected device.
C3_ListenersOfSelectedDeviceOnly ==
    /\ page = "Press" => \A r \in listeners : r.device = selectedDevice
    /\ page = "Messages" => \A r \in listeners : r.device = deviceId

IdsOf(list) == {list[i].id : i \in 1..Len(list)}

\* C4: the Timeline never holds two entries with the same identity key.
C4_UniqueIdentityKeys ==
    \A i, j \in 1..Len(history) : i # j => history[i].id # history[j].id

\* the live feed delivered a record that the Timeline held behind a newer one
C4_LiveRecordMergedOnce ==
    /\ page = "About"
    /\ Len(history) >= 2
    /\ currentLocation # Null
    /\ history[2].id = currentLocation.id

Redelivery ==
    /\ lastDelivery.source \in {"history", "realtime", "locations"}
    /\ lastDelivery'.source = lastDelivery.source
    /\ lastDelivery'.snapshot = lastDelivery.snapshot
    /\ lastDelivery'.flip # lastDelivery.flip

\* every object child carries a timestamp of its own: a key that is a non-zero
\* number (About), a non-zero timestamp field (Materials)
OwnTimestamps(snapshot) ==
    \A k \in DOMAIN snapshot :
        IsObject(snapshot[k]) =>
            IF page = "About" THEN ~Falsy(NumberOfKey(k))
            ELSE ~Falsy(snapshot[k].timestamp)

C7_LastArrivalWins ==
    [][AboutRealtimeSnapshot(AboutRealtimeSnapshots) /\ currentLocation' # Null
       => \A i \in 1..Len(history') :
              history'[i].id = currentLocation'.id => history'[i] = currentLocation']_vars

\* the entries of before that are not in after
Dropped(before, after) ==
    {before[i] : i \in {n \in 1..Len(before) : before[n].id \notin IdsOf(after)}}

\* C8: the Timeline holds at most the window size of entries, and the entries an
\* insertion drops are those with the oldest timestamps.
C8_WindowDropsOldest ==
    /\ [](Len(history) <= HistoryLimit)
    /\ [][AboutRealtimeSnapshot(AboutRealtimeSnapshots)
          => \A d \in Dropped(history, history') :
                 \A t \in DataTimestampsOf(history') : d.data.timestamp <= t]_vars

-----------------------------------------------------------------------------
(* Path tracking *)

\* the threshold of the append: computeDistanceBetween(last, new) > 10
MinDistance == 10

Abs(x) == IF x < 0 THEN 0 - x ELSE x

\* the distance of two points in metres; a unit of lat or lng stands for a metre
Distance(p, q) == Abs(p.lat - q.lat) + Abs(p.lng - q.lng)

\* C9: while Tracking a location is appended to the live path only if it is farther
\* than the threshold from the last recorded point.
C9_AppendedOnlyIfMoved ==
    [][/\ isTracking /\ isTracking'
       /\ Len(travelPath) > 0
       /\ Len(travelPath') = Len(travelPath) + 1
       => Distance(travelPath[Len(travelPath)], travelPath'[Len(travelPath')])
              > MinDistance]_vars

\* the start time of a session whose path was path, archived at time t: the first
\* point's timestamp, or a time of the session when the points carry none
StartTimeOf(session, path, t) ==
    IF path # <<>> /\ "timestamp" \in DOMAIN path[1]
    THEN session.startTime = path[1].timestamp
    ELSE session.startTime \in 1..t

\* C10: stop while Tracking appends exactly one session whose path is the live path,
\* with its start time and the end time now, and leaves the live path empty and Idle.
C10_StopArchivesLivePath ==
    [][isTracking /\ ~isTracking'
       => /\ Len(trackingHistory') = Len(trackingHistory) + 1
          /\ SubSeq(trackingHistory', 1, Len(trackingHistory)) = trackingHistory
          /\ trackingHistory'[Len(trackingHistory')].path = travelPath
          /\ StartTimeOf(trackingHistory'[Len(trackingHistory')], travelPath, now)
          /\ trackingHistory'[Len(trackingHistory')].endTime = now
          /\ travelPath' = <<>>]_vars

\* the point the trackers of lat and lng record for a location
PointOf(location) == [lat |-> location.lat, lng |-> location.lng]

\* C11: start from Idle when a current location exists yields Tracking with a live
\* path of exactly one point, the current location.
C11_StartSeedsOnePoint ==
    [][/\ page = "Press"
       /\ ~isTracking /\ isTracking'
       /\ currentLocation # Null
       => travelPath' = <<PointOf(currentLocation)>>]_vars

\* tracking was started on a current location
C11_StartedOnLocation ==
    /\ page = "Press"
    /\ isTracking
    /\ currentLocation # Null
    /\ travelPath = <<PointOf(currentLocation)>>

\* the points of the archived sessions
ArchivedPoints ==
    UNION {{trackingHistory[i].path[j] : j \in 1..Len(trackingHistory[i].path)} :
              i \in 1..Len(trackingHistory)}

\* C12: a new location arriving while Idle leaves the live path and the session list
\* unchanged.
C12_IdleLocationChangesNoPath ==
    [][~isTracking /\ MaterialsLocationsSnapshot(MaterialsTrackingSnapshots)
       => /\ travelPath' = travelPath
          /\ trackingHistory' = trackingHistory]_vars

\* Idle after a session, with a current location that arrived after the stop
C12_LocationArrivedWhileIdle ==
    /\ page = "Materials"
    /\ ~isTracking
    /\ trackingHistory # <<>>
    /\ travelPath = <<>>
    /\ currentLocation # Null
    /\ \A point \in ArchivedPoints : point.lat # currentLocation.data.lat

\* C13: save with a non-empty live path appends exactly one session holding that
\* path, and stop discards the live path and leaves the session list unchanged.
C13_StopDiscardsSaveArchives ==
    [][/\ MaterialsSaveCurrentPath
          => /\ Len(trackingHistory') = Len(trackingHistory) + 1
             /\ SubSeq(trackingHistory', 1, Len(trackingHistory)) = trackingHistory
             /\ trackingHistory'[Len(trackingHistory')].path = travelPath
       /\ isTracking /\ ~isTracking'
          => /\ travelPath' = <<>>
             /\ trackingHistory' = trackingHistory]_vars

-----------------------------------------------------------------------------
(* Normalization of malformed records *)

\* children with a lat or a timestamp that is missing or of the wrong type
MalformedValues ==
    {Primitive, RawObject(1, 1), RawObject(Undefined, 1), RawObject(BadString, 1),
     RawObject(1, Undefined)}

MaterialsMalformedSnapshots == SnapshotsOver(RedeliveryKeys, MalformedValues, HistoryLimit)

NextMaterialsNormalize ==
    \/ MaterialsLocationsSnapshot(MaterialsMalformedSnapshots)
    \/ Tick

\* the Materials tracker with the deliveries recorded
SpecMaterialsNormalize == InitPage("Materials", TRUE) /\ [][NextMaterialsNormalize]_vars

\* a step that delivers a snapshot: lastDelivery' holds it
Delivery == lastDelivery'.flip # lastDelivery.flip

\* the positions of the entries of list made from the child of key
EntriesOf(list, key) == {i \in 1..Len(list) : list[i].id = [prefix |-> "", n |-> key]}

\* C14: a field that is missing or of the wrong type is replaced by its default (0
\* for lat, the time of the delivery for timestamp) and the record carries
\* wasDefaulted = TRUE; the record is kept in the Timeline.
C14_DefaultedAndFlagged ==
    [][Delivery =>
          \A k \in DOMAIN lastDelivery'.snapshot :
              LET raw == lastDelivery'.snapshot[k]
                  malformed == ~IsNumber(raw.lat) \/ ~IsNumber(raw.timestamp)
              IN IsObject(raw) =>
                     \E i \in EntriesOf(history', k) :
                         /\ history'[i].data.lat = IF IsNumber(raw.lat) THEN raw.lat ELSE 0
                         /\ history'[i].data.timestamp =
                                IF IsNumber(raw.timestamp) THEN raw.timestamp ELSE now
                         /\ malformed => /\ "wasDefaulted" \in DOMAIN history'[i]
                                         /\ history'[i].wasDefaulted]_vars

\* C15: the normalizer rejects a payload only when it is not an object: every child
\* that is an object, whatever its fields, yields an entry of the Timeline.
C15_ObjectsAreKept ==
    [][Delivery =>
          \A k \in DOMAIN lastDelivery'.snapshot :
              IsObject(lastDelivery'.snapshot[k]) <=> EntriesOf(history', k) # {}]_vars

\* a snapshot with a child that is not an object and a child with a lat of the
\* wrong type was delivered, and the Timeline has the entry of the second
C15_MalformedObjectKept ==
    /\ page = "Materials"
    /\ \E k \in DOMAIN lastDelivery.snapshot : lastDelivery.snapshot[k] = Primitive
    /\ \E k \in DOMAIN lastDelivery.snapshot :
           /\ lastDelivery.snapshot[k] = RawObject(BadString, 1)
           /\ EntriesOf(history, k) # {}

-----------------------------------------------------------------------------
(* Absence of records *)

NextPressDevices ==
    \/ PressDevicesSnapshot(DevicesSnapshots)
    \/ PressDevicesError
    \/ PressSelectDevice
    \/ PressHistorySnapshot

SpecPressDevices == InitPage("Press", FALSE) /\ [][NextPressDevices]_vars

\* the snapshot of 'devices' without a device
NoDevices == <<>>

\* C16: a snapshot that holds no records is not an error: processing it never sets
\* the error state.
C16_NoDataIsNoError ==
    [][\/ PressDevicesSnapshot({NoDevices})
       \/ MaterialsLocationsSnapshot({EmptySnapshot})
       => error' = Null \/ error' = error]_vars

-----------------------------------------------------------------------------
(* Path metrics of the tracker with analytics: DeviceLocationTracker *)

\* the longest measured sequence
MaxSamples == 3

\* a number as the quotient of two integers; a quotient by 0 is Infinity or NaN
Quotient(n, d) == [num |-> n, den |-> d]
Zero == Quotient(0, 1)
IsFinite(q) == q.den # 0
SameNumber(p, q) == p.num * q.den = q.num * p.den

\* a location record received at timestamp ts, in seconds
Sample(lat, ts) == [accuracy |-> 5, lat |-> lat, lng |-> 7, source |-> "gps",
                    timestamp |-> ts]

\* the point of the path recorded for a record; at is a history field, the
\* record's timestamp, which the program does not store
PathPoint(record) == [lat |-> record.lat, lng |-> record.lng, at |-> record.timestamp]

Samples == {Sample(lat, ts) : lat \in {1, 2}, ts \in {1, 2, 3}}
SampleSeqs == UNION {[1..n -> Samples] : n \in 0..MaxSamples}

RECURSIVE SumOfLegs(_, _)
\* the loop of calculatePathDistance from index i (1-based) on
SumOfLegs(path, i) ==
    IF i > Len(path) THEN 0
    ELSE Distance(path[i - 1], path[i]) + SumOfLegs(path, i + 1)

\* calculatePathDistance with the leg from the last point back to the first
CalculatePathDistance_Closed(path) ==
    IF Len(path) < 2 THEN 0
    ELSE SumOfLegs(path, 2) + Distance(path[Len(path)], path[1])

\* calculatePathDistance, in metres
CalculatePathDistance(path) ==
    IF Len(path) < 2 THEN 0 ELSE SumOfLegs(path, 2)

\* locationHistory.find(loc => loc.lat === point.lat && loc.lng === point.lng)
Find(list, point) ==
    LET hits == {i \in 1..Len(list) : list[i].lat = point.lat /\ list[i].lng = point.lng}
    IN IF hits = {} THEN Null ELSE list[Min(hits)]

\* averageSpeed without the test timeDiff <= 0
AverageSpeed_Unguarded(path, list, distance) ==
    IF Len(path) < 2 \/ Len(list) = 0 THEN Zero
    ELSE LET firstPoint == Find(list, path[1])
             lastPoint == Find(list, path[Len(path)])
         IN IF firstPoint = Null \/ lastPoint = Null THEN Zero
            ELSE IF Falsy(firstPoint.timestamp) \/ Falsy(lastPoint.timestamp) THEN Zero
            ELSE Quotient(distance * 3600,
                          1000 * (lastPoint.timestamp - firstPoint.timestamp))

\* averageSpeed, in km/h: calculatePathDistance / 1000 / timeDiff, where timeDiff is
\* (lastPoint.timestamp - firstPoint.timestamp) / 3600
AverageSpeed(path, list, distance) ==
    IF Len(path) < 2 \/ Len(list) = 0 THEN Zero
    ELSE LET firstPoint == Find(list, path[1])
             lastPoint == Find(list, path[Len(path)])
         IN IF firstPoint = Null \/ lastPoint = Null THEN Zero
            ELSE IF Falsy(firstPoint.timestamp) \/ Falsy(lastPoint.timestamp) THEN Zero
            ELSE IF lastPoint.timestamp - firstPoint.timestamp <= 0 THEN Zero
            ELSE Quotient(distance * 3600,
                          1000 * (lastPoint.timestamp - firstPoint.timestamp))

\* toggleTracking: stop clears the path, start seeds it with the current location
TrackerToggleTracking ==
    /\ page = "Tracker"
    /\ travelPath' = IF isTracking THEN <<>>
                     ELSE IF currentLocation # Null /\ ~Falsy(currentLocation.lat)
                             /\ ~Falsy(currentLocation.lng)
                          THEN <<PathPoint(currentLocation)>>
                          ELSE travelPath
    /\ isTracking' = ~isTracking
    /\ UNCHANGED lastDelivery
    /\ UNCHANGED <<page, adapterVars, firstSnapshot, devicesVars, now, feedVars, trackingHistory, pressVars,
                   monitorVars>>

\* the tracker while it measures a sequence of records: the path has their points,
\* the history has the records, newest first
InitMeasuring ==
    \E samples \in SampleSeqs :
        /\ page = "Tracker"
        /\ now = 1
        /\ currentLocation = IF samples = <<>> THEN Null ELSE samples[Len(samples)]
        /\ history = <<>>
        /\ alerts = <<>>
        /\ error = Null
        /\ isLoading = FALSE
        /\ travelPath = [i \in 1..Len(samples) |-> PathPoint(samples[i])]
        /\ isTracking = TRUE
        /\ trackingHistory = <<>>
        /\ listeners = {}
        /\ selectedDevice = NoDevice
        /\ locationHistory = SortRawNewestFirst(samples)
        /\ deviceId = DefaultDevice
        /\ isConnected = FALSE
        /\ currentMotion = Null
        /\ motionHistory = <<>>
        /\ loading = TRUE
        /\ devices = <<>>
        /\ devicesListeners = {}
        /\ AdapterIdle
        /\ stored = <<>>
        /\ firstSnapshot = FALSE
        /\ lastDelivery = NotRecorded

NextMeasuring == TrackerToggleTracking

SpecMeasuring == InitMeasuring /\ [][NextMeasuring]_vars

\* the useMemo values of the current state
pathDistance == CalculatePathDistance(travelPath)
averageSpeed == AverageSpeed(travelPath, locationHistory, pathDistance)

\* the time from the first to the last point of the path, in seconds
Elapsed(path) == path[Len(path)].at - path[1].at

\* the records found for the first and the last point are those of the two points
FoundOwnRecords(path, list) ==
    /\ Find(list, path[1]) # Null
    /\ Find(list, path[Len(path)]) # Null
    /\ Find(list, path[1]).timestamp = path[1].at
    /\ Find(list, path[Len(path)]).timestamp = path[Len(path)].at

CalculateDistance(lat1, lon1, lat2, lon2) ==
    LET dLat == lat2 - lat1
        dLon == lon2 - lon1
    IN Abs(dLat) + Abs(dLon)

RECURSIVE SumOfConsecutive(_)
\* the sum of the distances between the consecutive points of path
SumOfConsecutive(path) ==
    IF Len(path) < 2 THEN 0
    ELSE SumOfConsecutive(SubSeq(path, 1, Len(path) - 1))
         + Distance(path[Len(path) - 1], path[Len(path)])

\* C19: the path distance is the sum of the distances between consecutive points:
\* 0 for the empty path, for a path of one point and for the same point twice.
C19_PathDistanceIsSumOfLegs ==
    page = "Tracker" =>
        /\ pathDistance = SumOfConsecutive(travelPath)
        /\ Len(travelPath) < 2 => pathDistance = 0
        /\ Len(travelPath) = 2 /\ PointOf(travelPath[1]) = PointOf(travelPath[2])
               => /\ pathDistance = 0
                  /\ CalculateDistance(travelPath[1].lat, travelPath[1].lng,
                                       travelPath[2].lat, travelPath[2].lng) = 0

\* a path that is the same point twice
C19_SamePointTwice ==
    /\ page = "Tracker"
    /\ Len(travelPath) = 2
    /\ PointOf(travelPath[1]) = PointOf(travelPath[2])
    /\ pathDistance = 0

-----------------------------------------------------------------------------
(* Data freshness of the DeviceMonitor *)

\* the milliseconds of a second
MsPerSecond == 1000

\* Math.floor((Date.now() - currentMotion.timestamp) / 1000), Date.now() being t
Freshness(t, timestamp) == (t - timestamp) \div MsPerSecond

\* Date.now(), in milliseconds, at the first render
Instants == {2000, 3000}

\* the DeviceMonitor started at one of the instants; the timestamps of the records
\* it receives are 1 and 2
SpecFreshness ==
    /\ \E t \in Instants : InitAt("Messages", FALSE, t) /\ stored = <<>>
    /\ [][NextMessages]_vars

\* C20: the freshness of the last sample is now minus the sample's instant, in
\* seconds, whether its timestamp is in seconds or in milliseconds: a sample stamped
\* t seconds yields the freshness of the sample stamped 1000 * t milliseconds.
C20_FreshnessInEitherUnit ==
    /\ page = "Messages"
    /\ currentMotion # Null
    /\ ~Falsy(currentMotion.timestamp)
    => Freshness(now, currentMotion.timestamp)
           = Freshness(now, MsPerSecond * currentMotion.timestamp)

-----------------------------------------------------------------------------
(* The adapter's subscription *)

NextAdapterListen ==
    \/ \E errorCallback \in BOOLEAN : ListenToRealtimeData(errorCallback)
    \/ \E data \in AdapterValues, throws \in BOOLEAN : RealtimeSnapshot(data, throws)
    \/ RealtimeError
    \/ RealtimeUnsubscribe

SpecAdapterListen == InitPage("Adapter", FALSE) /\ [][NextAdapterListen]_vars

\* C21: a delivered snapshot invokes the data callback exactly once, with the value
\* when it is a non-null object and with null otherwise; a read error invokes the
\* error callback, when one was supplied, and not the data callback; after the
\* returned unsubscribe was called no callback is invoked
C21_OneCallbackPerSnapshot ==
    [][/\ \A data \in AdapterValues, throws \in BOOLEAN :
             RealtimeSnapshot(data, throws) =>
                 /\ callbackCalls' = Append(callbackCalls,
                                            IF IsNonNullObject(data) THEN data ELSE Null)
                 /\ errorCallbackCalls' = errorCallbackCalls
       /\ RealtimeError =>
             /\ callbackCalls' = callbackCalls
             /\ errorCallbackCalls' = IF subscription.errorCallback
                                      THEN errorCallbackCalls + 1
                                      ELSE errorCallbackCalls
       /\ subscription.state = "unsubscribed" =>
             /\ callbackCalls' = callbackCalls
             /\ errorCallbackCalls' = errorCallbackCalls]_vars

-----------------------------------------------------------------------------
(* The adapter's fetches *)

NextAdapterFetch ==
    \/ \E limit \in Limits : GetLocationHistory(limit)
    \/ \E limit \in Limits : GetDeviceAlerts(limit)
    \/ GetLatestAlert
    \/ FetchSnapshot
    \/ FetchError

\* the adapter over a path that holds any of the stored sets
SpecAdapterFetch ==
    /\ \E s \in StoredSets : InitAt("Adapter", FALSE, 1) /\ stored = s
    /\ [][NextAdapterFetch]_vars

IsNewestFirst(list) ==
    \A i \in 1..(Len(list) - 1) : list[i].timestamp >= list[i + 1].timestamp

\* list holds n of the stored records, and no stored record that is left out has a
\* higher timestamp than one of them
HoldsNewestStored(list, n) ==
    /\ Len(list) = n
    /\ \E f \in [1..n -> DOMAIN stored] :
           /\ \A i, j \in 1..n : f[i] = f[j] => i = j
           /\ \A i \in 1..n : stored[f[i]] = list[i]
           /\ \A k \in DOMAIN stored \ {f[i] : i \in 1..n} :
                  \A i \in 1..n : stored[k].timestamp <= list[i].timestamp

\* C22: getLocationHistory and getDeviceAlerts settle once, and resolve with the
\* limit records of the highest timestamps stored under the path (all of them when
\* fewer are stored), newest first; getLatestAlert resolves with an alert of the
\* highest timestamp, or with null when no alert is stored
C22_FetchResolvesNewest ==
    /\ promise.settled <= 1
    /\ promise.state = "fulfilled" =>
          /\ promise.settled = 1
          /\ IF promise.fn = "getLatestAlert"
             THEN IF DOMAIN stored = {} THEN promise.value = Null
                  ELSE promise.value # Null /\ HoldsNewestStored(<<promise.value>>, 1)
             ELSE LET list == promise.value.array
                  IN /\ IsNewestFirst(list)
                     /\ Len(list) <= promise.limit
                     /\ HoldsNewestStored(list, Min({promise.limit,
                                                     Cardinality(DOMAIN stored)}))

\* C22 happens: three records are stored, the oldest under the first key, and a fetch
\* of two of them is resolved
C22_FetchedTwoOfThree ==
    /\ promise.state = "fulfilled"
    /\ promise.fn = "getLocationHistory"
    /\ promise.limit = 2
    /\ DOMAIN stored = Keys
    /\ stored[0].timestamp < stored[1].timestamp
    /\ stored[1].timestamp < stored[2].timestamp

-----------------------------------------------------------------------------
(* The current record and the Timeline *)

\* C23: the record held as current is a member of the Timeline: the history list has
\* an entry with its identity key or with its timestamp; this holds after every
\* delivery of a live-value snapshot and of a history snapshot
C23_CurrentInTimeline ==
    /\ page = "About" /\ currentLocation # Null =>
          \E i \in DOMAIN history :
              \/ history[i].id = currentLocation.id
              \/ history[i].data.timestamp = currentLocation.data.timestamp
    /\ page = "Press" /\ currentLocation # Null =>
          \E i \in DOMAIN locationHistory :
              locationHistory[i].timestamp = currentLocation.timestamp

-----------------------------------------------------------------------------
(* Switching the device *)

\* C24: once the first location snapshot of the newly selected device has been
\* processed, the current location is null or a record of that device and the
\* location history is empty or holds records of that device only: no record of the
\* device selected before is shown
C24_ShowsSelectedDeviceOnly ==
    /\ page = "Press" /\ selectedDevice # NoDevice /\ firstSnapshot =>
          /\ currentLocation = Null \/ currentLocation.dev = selectedDevice
          /\ \A i \in DOMAIN locationHistory : locationHistory[i].dev = selectedDevice
    /\ page = "Messages" /\ firstSnapshot =>
          currentLocation = Null \/ currentLocation.dev = deviceId

-----------------------------------------------------------------------------
(* The source of the live path *)

\* the latitude the device reports: it tells the source of a point of the path
LatOf(d) == IF d = "A" THEN 1 ELSE 2

PressSourceSnapshots(d) ==
    SnapshotsOver(TrackingKeys, {DeviceLocation(d, LatOf(d), ts) : ts \in {1, 2}}, 1)

NextPressSources ==
    \/ PressSelectDevice
    \/ PressLocationSnapshot([d \in Devices |-> PressSourceSnapshots(d)])
    \/ PressToggleTracking

\* the Press tracker on two devices that report different latitudes
SpecPressSources == InitPage("Press", FALSE) /\ [][NextPressSources]_vars

SourceOf(point) == CHOOSE d \in Devices : LatOf(d) = point.lat

\* C25: while Tracking, every point of the live path comes from the source of its
\* first point: a change of the selected device appends no point of another device
C25_PathOfOneSource ==
    isTracking =>
        \A i \in DOMAIN travelPath : SourceOf(travelPath[i]) = SourceOf(travelPath[1])

-----------------------------------------------------------------------------
(* Re-delivery while Tracking *)

\* C26: while Tracking, the delivery of a snapshot whose newest record is the record
\* already held as current does not grow the live path, so that the path never holds
\* two consecutive points taken from the same record
C26_RedeliveryKeepsPath ==
    [][/\ isTracking
       /\ currentLocation # Null
       /\ MaterialsLocationsSnapshot(MaterialsTrackingSnapshots)
       /\ currentLocation' = currentLocation
       => travelPath' = travelPath]_vars

-----------------------------------------------------------------------------
(* The live path while Idle *)

\* the Materials tracker and the Press tracker
NextTrackers == NextMaterialsTracking \/ NextPressTracking
SpecTrackers ==
    /\ InitPage("Materials", FALSE) \/ InitPage("Press", FALSE)
    /\ [][NextTrackers]_vars

\* C27: in every reachable state, Idle implies that the live path is empty, after any
\* sequence of start, stop, save and location updates
C27_IdlePathIsEmpty == ~isTracking => travelPath = <<>>

\* C27 happens: Idle after a save and a stop that each archived points, with a current
\* location
C27_IdleAfterSaveAndStop ==
    /\ ~isTracking
    /\ currentLocation # Null
    /\ Len(trackingHistory) = 2
    /\ \A i \in 1..2 : trackingHistory[i].path # <<>>

-----------------------------------------------------------------------------
(* The archived sessions *)

\* C28: every session of the session list has an identifier that differs from the
\* identifier of every other session, after any sequence of save and stop, a save
\* followed by a stop at the same value of the clock included
C28_UniqueSessionIds ==
    \A i, j \in DOMAIN trackingHistory :
        i # j => trackingHistory[i].id # trackingHistory[j].id

\* a <= b of two JavaScript numbers: false when one of them is NaN
LessOrEqual(a, b) == a # NaN /\ b # NaN /\ a <= b

\* C29: every archived session has a start time that is a number and is not later
\* than its end time, whatever timestamps the archived points carry and also when the
\* archived path is empty
C29_StartNotAfterEnd ==
    \A i \in DOMAIN trackingHistory :
        LessOrEqual(trackingHistory[i].startTime, trackingHistory[i].endTime)

-----------------------------------------------------------------------------
(* The error state of two streams *)

\* C30: an error reported by one stream stays in the error state when the other
\* stream delivers a snapshot successfully: only a delivery of the stream that
\* reported the error clears it
C30_OtherStreamKeepsError ==
    [][/\ error = Message("History error")
          /\ AboutRealtimeSnapshot(AboutRealtimeSnapshots)
          => error' = error
       /\ error = Message("Realtime error")
          /\ AboutHistorySnapshot(AboutHistorySnapshots)
          => error' = error]_vars

====
